---- MODULE Spec2Model ----
(***************************************************************************)
(* SatsForGood: the invoice and donation lifecycle.                        *)
(*                                                                         *)
(* Spec       the in-memory mock API of src/src/lib/api.ts: createInvoice, *)
(*            getInvoiceStatus, getDonationStats, with their awaits.       *)
(* SpecClient the HTTP client of src/unnamed/part_002 (getInvoiceStatus,   *)
(*            confirmPayment) and the polling effect of InvoiceQR          *)
(*            (src/README.md), against a backend whose answers are inputs. *)
(* SpecInputs the mock API behind DonateForm (donation-receipt.tsx) and    *)
(*            behind direct callers, with any arguments.                   *)
(* SpecFeed   the mock API over a run long enough to fill the feed of      *)
(*            getRecentDonations.                                          *)
(* SpecHome   the dashboard read of Home (src/unnamed/part_002) over the   *)
(*            mock API.                                                    *)
(* SpecPage   the Home page with the receipt view (src/unnamed/part_002), *)
(*            its InvoiceQR and its DonationReceiptComponent, over the     *)
(*            HTTP client.                                                 *)
(* SpecPageNoReceipt  the Home page without the receipt view, whose        *)
(*            payment success resets the page after 3 seconds.             *)
(*                                                                         *)
(* JavaScript runs each callback to completion: an async function whose    *)
(* only await is its leading delay takes effect in one step, when the      *)
(* delay resolves.  Status checks are kept in two steps, the call and the  *)
(* continuation, so that several of them are in flight at once.            *)
(***************************************************************************)
EXTENDS Integers, Sequences, FiniteSets, TLC

\* ------------------------------------------------------------------ bounds
NCallers == 2       \* status checks that can be in flight at once
MaxCreated == 2     \* createInvoice completions in one run
MaxTicks == 1       \* advances of the wall clock in one run
MaxInFlight == 2    \* status requests of the polling view in flight at once
MaxSubmitted == 2   \* createInvoice completions in one run of SpecInputs
MaxPayments == 6    \* createInvoice completions in one run of SpecFeed
MaxFeedTicks == 2   \* advances of the wall clock in one run of SpecFeed
MaxShown == 2       \* invoices createInvoice returns to the page in one run
MaxPagePolls == 2   \* status requests of the page in flight at once

\* --------------------------------------------------------- program constants
expires_in == 3600  \* seconds, the invoice TTL
PaidAfterPolls == 2 \* the stub reports payment on this poll
RecentCount == 5    \* Donations getRecentDonations returns at most

\* An argument that was not passed / an optional field that is not set.
undefined == "<undefined>"
\* A payment hash no createInvoice can produce (Date.now() is never negative).
UnknownHash == -1

Callers == 1..NCallers
\* Date.now() is in milliseconds; expires_in is in seconds.
ClockSteps == {1, expires_in * 1000 + 1}
\* (amount_sats, donor_name, recipient) as passed to createInvoice.
CreateInputs ==
    { <<1, undefined, undefined>>,
      <<2, "Ann", "Shelter">> }

VARIABLES
    mockDonations,   \* api.ts: Donation[], newest first
    pendingInvoice,  \* api.ts: Invoice | null, as <<>> or <<invoice>>
    pollCount,       \* api.ts: polls of the pending invoice
    now,             \* Date.now(), milliseconds
    ticks,           \* clock advances so far
    created,         \* createInvoice calls completed so far
    polls,           \* per caller: <<>> or <<payment_hash>> of its status check in flight
    returned,        \* what the call that completed last returned: [op, val, ...]
    ledgerHash,      \* history: payment_hash of the invoice behind each Donation
    issued,          \* history: payment hashes createInvoice has returned
    snap,            \* history: per caller, the ledger as it was at the call
    checked          \* history: status checks completed for the pending invoice

apiVars == <<mockDonations, pendingInvoice, pollCount, now, ticks, created,
             polls, returned, ledgerHash, issued, snap, checked>>

VARIABLES
    status,          \* InvoiceQR: the status the view shows
    isPolling,       \* InvoiceQR: whether the polling effect is on
    intervalOn,      \* InvoiceQR: the effect's setInterval is set and not cleared
    inflight,        \* status requests started by the interval and not yet resolved
    successCalls,    \* times onPaymentSuccess was invoked
    errorLogged,     \* the polling callback has caught and logged an error
    confirmed,       \* <<>> or <<what the last confirmPayment returned>>
    lastFetch,       \* history: the outcome of the fetch that resolved last
    lastCall         \* history: the client function that fetch belonged to

clientVars == <<status, isPolling, intervalOn, inflight, successCalls, errorLogged,
                confirmed, lastFetch, lastCall>>

VARIABLES
    recentDonations, \* Home: the recent donations the dashboard shows
    stats,           \* Home: the stats the dashboard shows
    dashboard        \* Home: <<>> or <<the fetchDashboardData call in flight>>

homeVars == <<recentDonations, stats, dashboard>>

VARIABLES
    view,              \* Home: "form", "invoice" or "receipt"
    invoice,           \* Home: Invoice | null, as <<>> or <<invoice>>
    completedDonation, \* Home: <<>> or <<what the receipt view is given>>
    showConfetti,      \* Home: the confetti is on
    creating,          \* Home: <<>> or <<the form values of the createInvoice in flight>>
    resets,            \* Home without receipt: per invoice, its 3-second resets not yet fired
    qrPolling,         \* InvoiceQR as mounted by Home: isPolling
    statusPolls,       \* per invoice, the status requests of its InvoiceQR in flight
    receipt,           \* DonationReceiptComponent: DonationReceipt | null
    loading,           \* DonationReceiptComponent: loading
    receiptFetches,    \* props of the getDonationReceipt calls in flight
    invoices,          \* history: the invoices createInvoice has returned to Home
    succeeded          \* history: invoices with a status request that resolved PAID

pageVars == <<view, invoice, completedDonation, showConfetti, creating, resets,
              qrPolling, statusPolls, receipt, loading, receiptFetches,
              invoices, succeeded>>

uiVars == <<clientVars, homeVars, pageVars>>

vars == <<apiVars, clientVars, homeVars, pageVars>>

\* ---------------------------------------------------------------- api.ts

\* donor_name.replace(/\s/g, "_") on the names of CreateInputs.
replaceWhitespace(name) == IF name = " " THEN "_" ELSE name

\* The template literal of the invoice string, kept as its parts.
invoiceString(amount_sats, donor_name, payment_hash) ==
    <<"ln-testnet-invoice", amount_sats, replaceWhitespace(donor_name), payment_hash>>

\* `mock_payment_hash_${Date.now()}`: the hash is the clock value read.
paymentHash(t) == t

\* The default parameter donor_name = "Anonymous" applies to undefined only.
defaultDonorName(donor_name) ==
    IF donor_name = undefined THEN "Anonymous" ELSE donor_name

\* A bug: an invoice with a recipient is given twice the time.
newInvoiceLongerForRecipient(amount_sats, donor_name, recipient, t) ==
    [ invoice      |-> invoiceString(amount_sats, defaultDonorName(donor_name), paymentHash(t)),
      payment_hash |-> paymentHash(t),
      expires_in   |-> IF recipient = undefined THEN expires_in ELSE 2 * expires_in,
      donor_name   |-> defaultDonorName(donor_name),
      recipient    |-> recipient,
      amount_sats  |-> amount_sats ]

\* The Invoice createInvoice builds at clock value t.
newInvoice(amount_sats, donor_name, recipient, t) ==
    [ invoice      |-> invoiceString(amount_sats, defaultDonorName(donor_name), paymentHash(t)),
      payment_hash |-> paymentHash(t),
      expires_in   |-> expires_in,
      donor_name   |-> defaultDonorName(donor_name),
      recipient    |-> recipient,
      amount_sats  |-> amount_sats ]

\* pendingInvoice.donor_name || "Anonymous"
orAnonymous(donor_name) ==
    IF donor_name = "" \/ donor_name = undefined THEN "Anonymous" ELSE donor_name

\* A bug: the id is taken from the clock instead of the ledger's length.
newDonationIdFromClock(inv, donations, t) ==
    [ id          |-> t,
      donor_name  |-> orAnonymous(inv.donor_name),
      recipient   |-> inv.recipient,
      amount_sats |-> inv.amount_sats,
      status      |-> "PAID",
      paid_at     |-> t ]

\* The Donation getInvoiceStatus builds from the pending invoice at clock t.
newDonation(inv, donations, t) ==
    [ id          |-> Len(donations) + 1,
      donor_name  |-> orAnonymous(inv.donor_name),
      recipient   |-> inv.recipient,
      amount_sats |-> inv.amount_sats,
      status      |-> "PAID",
      paid_at     |-> t ]

\* A bug: the hash is not compared; any check counts for the pending invoice.
notPendingOnlyWhenNull(payment_hash, pending) == pending = <<>>

\* payment_hash !== pendingInvoice?.payment_hash
notPending(payment_hash, pending) ==
    IF pending = <<>> THEN TRUE ELSE payment_hash # pending[1].payment_hash

\* A bug: the payment is simulated one poll early.
paymentSimulatedEarly(count) == count >= PaidAfterPolls - 1

\* if (pollCount >= 2), read after pollCount++
paymentSimulated(count) == count >= PaidAfterPolls

\* A bug: the ledger is assigned the new Donation instead of growing by it.
unshiftOverwrites(donations, d) == <<d>>

\* mockDonations.unshift(newDonation)
unshift(donations, d) == <<d>> \o donations

\* A bug: a new invoice inherits the polls of the one before it.
pollCountKept == pollCount

\* pollCount = 0; // Reset poll count for the new invoice
pollCountReset == 0

\* A bug: the pending invoice survives its own payment.
pendingKept == pendingInvoice

\* pendingInvoice = null; // Clear pending invoice
pendingCleared == <<>>

RECURSIVE reduceAmounts(_, _)
\* mockDonations.reduce((acc, donation) => acc + donation.amount_sats, acc)
reduceAmounts(donations, acc) ==
    IF donations = <<>> THEN acc
    ELSE reduceAmounts(Tail(donations), acc + Head(donations).amount_sats)

\* A bug: the newest Donation is left out of the total.
getDonationStatsSkipsNewest(donations) ==
    [ totalSats  |-> IF donations = <<>> THEN 0 ELSE reduceAmounts(Tail(donations), 0),
      donorCount |-> Len(donations) ]

\* What getDonationStats returns for a ledger.
getDonationStats(donations) ==
    [ totalSats  |-> reduceAmounts(donations, 0),
      donorCount |-> Len(donations) ]

\* Array.prototype.slice(start, end) for 0 <= start <= end.
slice(array, start, end) ==
    SubSeq(array, start + 1, IF end < Len(array) THEN end ELSE Len(array))

\* A bug: the whole ledger is returned.
getRecentDonationsAll(donations) == donations

\* What getRecentDonations returns for a ledger: mockDonations.slice(0, 5)
getRecentDonations(donations) == slice(donations, 0, RecentCount)

\* ---------------------------------------------------------------- history

\* Donations in the ledger that came from an invoice with this payment hash.
DonationsIn(hashes, h) == { i \in 1..Len(hashes) : hashes[i] = h }
DonationsFor(h) == DonationsIn(ledgerHash, h)

\* The stub oracle reports this hash paid on the next poll.
OraclePaid(h) ==
    /\ ~notPending(h, pendingInvoice)
    /\ paymentSimulated(pollCount + 1)

NoSnap == [paid |-> FALSE]

\* ----------------------------------------------------------------- actions

InitApi ==
    /\ mockDonations = <<>>
    /\ pendingInvoice = <<>>
    /\ pollCount = 0
    /\ now = 0
    /\ ticks = 0
    /\ created = 0
    /\ polls = [c \in Callers |-> <<>>]
    /\ returned = [op |-> "none"]
    /\ ledgerHash = <<>>
    /\ issued = {}
    /\ snap = [c \in Callers |-> NoSnap]
    /\ checked = 0

\* The wall clock advances between callbacks, at most `most` times in a run.
TickUpTo(most) ==
    /\ ticks < most
    /\ \E d \in ClockSteps : now' = now + d
    /\ ticks' = ticks + 1
    /\ UNCHANGED <<mockDonations, pendingInvoice, pollCount, created,
                   polls, returned, ledgerHash, issued, snap, checked>>
    /\ UNCHANGED uiVars

Tick == TickUpTo(MaxTicks)

\* createInvoice(amount_sats, donor_name, recipient), as its delay resolves,
\* with the arguments drawn from `inputs`, at most `most` times in a run.
CreateInvoiceFrom(inputs, most) ==
    /\ created < most
    /\ \E in \in inputs :
         LET inv == newInvoice(in[1], in[2], in[3], now) IN
           /\ pendingInvoice' = <<inv>>
           /\ pollCount' = pollCountReset
           /\ checked' = 0
           /\ returned' = [op |-> "createInvoice", val |-> inv]
           /\ issued' = issued \cup {inv.payment_hash}
    /\ created' = created + 1
    /\ UNCHANGED <<mockDonations, now, ticks, polls, ledgerHash, snap>>
    /\ UNCHANGED uiVars

CreateInvoice == CreateInvoiceFrom(CreateInputs, MaxCreated)

\* getInvoiceStatus(payment_hash) up to its await.
CallGetInvoiceStatus(c) ==
    /\ polls[c] = <<>>
    /\ \E h \in issued \cup {UnknownHash} :
         /\ polls' = [polls EXCEPT ![c] = <<h>>]
         /\ snap' = [snap EXCEPT ![c] =
                IF OraclePaid(h)
                THEN [paid |-> TRUE, count |-> Cardinality(DonationsFor(h)),
                      created |-> created, invoice |-> pendingInvoice[1]]
                ELSE NoSnap]
    /\ UNCHANGED <<mockDonations, pendingInvoice, pollCount, now, ticks, created,
                   returned, ledgerHash, issued, checked>>
    /\ UNCHANGED uiVars

\* What a completed status check leaves in `returned`.
StatusReturn(val) == [op |-> "getInvoiceStatus", val |-> val]

\* getInvoiceStatus after await delay(2000): the hash is not the pending one.
StatusNotPending(c) ==
    /\ notPending(polls[c][1], pendingInvoice)
    /\ returned' = StatusReturn([status |-> "PENDING"])
    /\ UNCHANGED <<mockDonations, pendingInvoice, pollCount, ledgerHash, checked>>

\* ... the pending invoice is polled and the payment is simulated.
StatusPaid(c) ==
    /\ ~notPending(polls[c][1], pendingInvoice)
    /\ paymentSimulated(pollCount + 1)
    /\ LET paid_at == now
           d == newDonation(pendingInvoice[1], mockDonations, paid_at) IN
         /\ mockDonations' = unshift(mockDonations, d)
         /\ ledgerHash' = <<pendingInvoice[1].payment_hash>> \o ledgerHash
         /\ returned' = StatusReturn([status |-> "PAID", paid_at |-> paid_at])
    /\ pendingInvoice' = pendingCleared
    /\ pollCount' = 0
    /\ checked' = 0

\* ... the pending invoice is polled and is not paid yet.
StatusPending(c) ==
    /\ ~notPending(polls[c][1], pendingInvoice)
    /\ ~paymentSimulated(pollCount + 1)
    /\ pollCount' = pollCount + 1
    /\ checked' = checked + 1
    /\ returned' = StatusReturn([status |-> "PENDING"])
    /\ UNCHANGED <<mockDonations, pendingInvoice, ledgerHash>>

GetInvoiceStatus(c) ==
    /\ polls[c] # <<>>
    /\ \/ StatusNotPending(c)
       \/ StatusPaid(c)
       \/ StatusPending(c)
    /\ polls' = [polls EXCEPT ![c] = <<>>]
    /\ snap' = [snap EXCEPT ![c] = NoSnap]
    /\ UNCHANGED <<now, ticks, created, issued>>
    /\ UNCHANGED uiVars

\* getDonationStats(), as its delay resolves.
GetDonationStats ==
    /\ returned' = [op |-> "getDonationStats", val |-> getDonationStats(mockDonations)]
    /\ UNCHANGED <<mockDonations, pendingInvoice, pollCount, now, ticks, created,
                   polls, ledgerHash, issued, snap, checked>>
    /\ UNCHANGED uiVars

\* getRecentDonations(), as its delay resolves.
GetRecentDonations ==
    /\ returned' = [op |-> "getRecentDonations", val |-> getRecentDonations(mockDonations)]
    /\ UNCHANGED <<mockDonations, pendingInvoice, pollCount, now, ticks, created,
                   polls, ledgerHash, issued, snap, checked>>
    /\ UNCHANGED uiVars

\* ------------------------------------------- donation-receipt.tsx: DonateForm
\* (amount, name, recipient) as a donor can leave them in the form; the first
\* is the form's defaultValues.
FormValues ==
    { <<1000, "", "">>,
      <<0, "Ann", "Shelter">>,
      <<1000000, " ", "">> }

\* The zod schema: name and recipient are optional strings, the amount is a
\* number between 1 and 1000000.
formSchema(values) == values[1] >= 1 /\ values[1] <= 1000000

\* onSubmit, which the resolver invokes for values the schema accepts, passes
\* them through Home.handleCreateInvoice to createInvoice.
OnSubmit ==
    CreateInvoiceFrom({ values \in FormValues : formSchema(values) }, MaxSubmitted)

\* Arguments of a caller that does not go through the form.
DirectInputs ==
    CreateInputs \cup { <<0, undefined, undefined>>, <<1000001, " ", undefined>> }

\* createInvoice called directly.
CreateInvoiceDirect == CreateInvoiceFrom(DirectInputs, MaxSubmitted)

\* ------------------------------------------------------- part_002: Home
\* fetchDashboardData up to its await: getRecentDonations() and
\* getDonationStats() are both called and each waits for its own delay.
FetchDashboardData ==
    /\ dashboard = <<>>
    /\ dashboard' = <<[donations |-> <<>>]>>
    /\ UNCHANGED <<recentDonations, stats>>
    /\ UNCHANGED <<apiVars, clientVars, pageVars>>

\* The delay of getRecentDonations, set first, resolves: the call reads the ledger.
DashboardRecentResolves ==
    /\ dashboard # <<>>
    /\ dashboard[1].donations = <<>>
    /\ dashboard' = <<[donations |-> <<getRecentDonations(mockDonations)>>]>>
    /\ UNCHANGED <<recentDonations, stats>>
    /\ UNCHANGED <<apiVars, clientVars, pageVars>>

\* The delay of getDonationStats resolves: the call reads the ledger, Promise.all
\* is fulfilled and fetchDashboardData sets both pieces of state.
DashboardStatsResolves ==
    /\ dashboard # <<>>
    /\ dashboard[1].donations # <<>>
    /\ recentDonations' = dashboard[1].donations[1]
    /\ stats' = getDonationStats(mockDonations)
    /\ dashboard' = <<>>
    /\ UNCHANGED <<apiVars, clientVars, pageVars>>

\* ------------------------------------------------ part_002: the HTTP client

\* What a fetch of the backend can come to: the request fails (the promise
\* rejects), or a response arrives, OK or not, with its JSON body.
FetchOutcomes ==
    { [kind |-> "rejected"],
      [kind |-> "response", ok |-> FALSE],
      [kind |-> "response", ok |-> TRUE, data |-> [status |-> "PENDING"]],
      [kind |-> "response", ok |-> TRUE, data |-> [status |-> "PAID", paid_at |-> 1]],
      [kind |-> "response", ok |-> TRUE, data |-> [status |-> "EXPIRED"]] }

\* The backend did not answer the question: no response, or a non-OK one.
Unavailable(r) == IF r.kind = "rejected" THEN TRUE ELSE ~r.ok

\* { status: data.status, paid_at: data.paid_at }
statusOf(data) ==
    IF "paid_at" \in DOMAIN data
    THEN [status |-> data.status, paid_at |-> data.paid_at]
    ELSE [status |-> data.status]

\* getInvoiceStatus of the client: throws unless the response is OK.
getInvoiceStatusHttp(r) ==
    IF Unavailable(r)
    THEN [threw |-> TRUE]
    ELSE [threw |-> FALSE, val |-> statusOf(r.data)]

\* confirmPayment: an OK response is passed on; a failed request or a non-OK
\* response falls through to the simulated confirmation.
confirmPayment(r, t) ==
    IF Unavailable(r)
    THEN [status |-> "PAID", paid_at |-> t]
    ELSE statusOf(r.data)

InitClient ==
    /\ status = "PENDING"
    /\ isPolling = TRUE
    /\ intervalOn = TRUE
    /\ inflight = 0
    /\ successCalls = 0
    /\ errorLogged = FALSE
    /\ confirmed = <<>>
    /\ lastFetch = [kind |-> "none"]
    /\ lastCall = "none"

\* The interval fires: the callback calls getInvoiceStatus and awaits it.
IntervalTick ==
    /\ intervalOn
    /\ inflight < MaxInFlight
    /\ inflight' = inflight + 1
    /\ UNCHANGED <<status, isPolling, intervalOn, successCalls, errorLogged,
                   confirmed, lastFetch, lastCall>>
    /\ UNCHANGED apiVars
    /\ UNCHANGED <<homeVars, pageVars>>

\* result.status === "PAID"
PollPaid ==
    /\ status' = "PAID"
    /\ isPolling' = FALSE
    /\ successCalls' = successCalls + 1
    /\ intervalOn' = FALSE
    /\ UNCHANGED errorLogged

\* result.status === "EXPIRED"
PollExpired ==
    /\ status' = "EXPIRED"
    /\ isPolling' = FALSE
    /\ intervalOn' = FALSE
    /\ UNCHANGED <<successCalls, errorLogged>>

\* catch (error) { console.error(...) }
PollCaught ==
    /\ errorLogged' = TRUE
    /\ UNCHANGED <<status, isPolling, intervalOn, successCalls>>

\* A status request of the polling callback resolves and the callback goes on.
PollResolve ==
    /\ inflight > 0
    /\ inflight' = inflight - 1
    /\ \E r \in FetchOutcomes :
         LET result == getInvoiceStatusHttp(r) IN
           /\ lastFetch' = r
           /\ IF result.threw THEN PollCaught
              ELSE IF result.val.status = "PAID" THEN PollPaid
              ELSE IF result.val.status = "EXPIRED" THEN PollExpired
              ELSE UNCHANGED <<status, isPolling, intervalOn, successCalls, errorLogged>>
    /\ lastCall' = "getInvoiceStatus"
    /\ UNCHANGED confirmed
    /\ UNCHANGED apiVars
    /\ UNCHANGED <<homeVars, pageVars>>

\* confirmPayment(payment_hash), from its call to its return.
ConfirmPayment ==
    /\ \E r \in FetchOutcomes :
         /\ lastFetch' = r
         /\ confirmed' = <<confirmPayment(r, now)>>
    /\ lastCall' = "confirmPayment"
    /\ UNCHANGED <<status, isPolling, intervalOn, inflight, successCalls, errorLogged>>
    /\ UNCHANGED apiVars
    /\ UNCHANGED <<homeVars, pageVars>>

\* ------------------------------------- part_002: Home, the page and its views
\* What the backend can answer to the create-invoice request for the k-th
\* invoice of the page: no answer, or an invoice under a payment hash of its own.
CreateOutcomes(k) ==
    { [kind |-> "rejected"],
      [kind |-> "response", ok |-> FALSE],
      [kind |-> "response", ok |-> TRUE,
       data |-> [invoice |-> <<"lntb", k>>, payment_hash |-> k,
                 expires_in |-> expires_in, qr_code |-> <<"qr", k>>]] }

\* createInvoice of the client: throws unless the response is OK; the donor
\* name, the recipient and the amount are the arguments, not the backend's.
createInvoiceHttp(values, r) ==
    IF Unavailable(r)
    THEN [threw |-> TRUE]
    ELSE [threw |-> FALSE,
          val |-> [ invoice      |-> r.data.invoice,
                    payment_hash |-> r.data.payment_hash,
                    expires_in   |-> r.data.expires_in,
                    donor_name   |-> defaultDonorName(values[2]),
                    recipient    |-> values[3],
                    amount_sats  |-> values[1],
                    qr_code      |-> r.data.qr_code ]]

\* A bug: the recipient is not copied.
completedOfWithoutRecipient(inv) ==
    [ payment_hash |-> inv.payment_hash,
      amount_sats  |-> inv.amount_sats,
      donor_name   |-> orAnonymous(inv.donor_name),
      recipient    |-> undefined ]

\* handlePaymentSuccess: the object given to setCompletedDonation.
completedOf(inv) ==
    [ payment_hash |-> inv.payment_hash,
      amount_sats  |-> inv.amount_sats,
      donor_name   |-> orAnonymous(inv.donor_name),
      recipient    |-> inv.recipient ]

\* The receipt the backend holds for a payment hash.
backendReceipt(payment_hash) ==
    [ id             |-> <<"backend_donation", payment_hash>>,
      donor_name     |-> "Ann",
      recipient      |-> "Shelter",
      amount_sats    |-> 1000,
      payment_hash   |-> payment_hash,
      paid_at        |-> 1,
      transaction_id |-> <<"backend_tx", payment_hash>>,
      network        |-> "Bitcoin Lightning Network" ]

\* What the fetch of getDonationReceipt can come to.
ReceiptOutcomes(payment_hash) ==
    { [kind |-> "rejected"],
      [kind |-> "response", ok |-> FALSE],
      [kind |-> "response", ok |-> TRUE, data |-> backendReceipt(payment_hash)] }

\* getDonationReceipt of the client: throws unless the response is OK.
getDonationReceipt(r) ==
    IF Unavailable(r) THEN [threw |-> TRUE] ELSE [threw |-> FALSE, val |-> r.data]

\* fetchReceipt, catch: the receipt made up from the props and the clock.  The
\* payment hashes of the model are shorter than the 8 characters slice(0, 8) keeps.
fallbackReceipt(props, t) ==
    [ id             |-> <<"donation_", t>>,
      donor_name     |-> props.donor_name,
      recipient      |-> props.recipient,
      amount_sats    |-> props.amount_sats,
      payment_hash   |-> props.payment_hash,
      paid_at        |-> t,
      transaction_id |-> <<"lntx1", props.payment_hash, "w", props.amount_sats>>,
      network        |-> "Bitcoin Lightning Network (Testnet)" ]

RECURSIVE InFlight(_, _)
\* The status requests in flight for the invoices in S.
InFlight(requests, S) ==
    IF S = {} THEN 0
    ELSE LET i == CHOOSE j \in S : TRUE IN requests[i] + InFlight(requests, S \ {i})

\* The InvoiceQR of the i-th invoice is the one on the page.
Mounted(i) == view = "invoice" /\ invoice = <<invoices[i]>>

InitPage ==
    /\ view = "form"
    /\ invoice = <<>>
    /\ completedDonation = <<>>
    /\ showConfetti = FALSE
    /\ creating = <<>>
    /\ resets = [i \in 1..MaxShown |-> 0]
    /\ qrPolling = FALSE
    /\ statusPolls = [i \in 1..MaxShown |-> 0]
    /\ receipt = <<>>
    /\ loading = TRUE
    /\ receiptFetches = {}
    /\ invoices = <<>>
    /\ succeeded = {}

\* The receipt component is not on the page: its state and the setState calls
\* of its fetches in flight are gone.
ReceiptUnmounted ==
    /\ receipt' = <<>>
    /\ loading' = TRUE
    /\ receiptFetches' = {}

\* fetchDashboardData() called by a handler of the page.
DashboardRefetched ==
    /\ dashboard' = <<[donations |-> <<>>]>>
    /\ UNCHANGED <<recentDonations, stats>>

\* DonateForm.onSubmit -> handleCreateInvoice up to await createInvoice.
SubmitForm ==
    /\ view = "form"
    /\ creating = <<>>
    /\ Len(invoices) < MaxShown
    /\ \E values \in { v \in FormValues : formSchema(v) } : creating' = <<values>>
    /\ UNCHANGED <<view, invoice, completedDonation, showConfetti, resets, qrPolling,
                   statusPolls, receipt, loading, receiptFetches, invoices, succeeded>>
    /\ UNCHANGED <<apiVars, clientVars, homeVars>>

\* handleCreateInvoice after the await: setInvoice and setView, or the catch.
CreateInvoiceResolves ==
    /\ creating # <<>>
    /\ \E r \in CreateOutcomes(Len(invoices) + 1) :
         LET result == createInvoiceHttp(creating[1], r) IN
           IF result.threw
           THEN UNCHANGED <<view, invoice, invoices, qrPolling, receipt, loading,
                            receiptFetches>>
           ELSE /\ invoice' = <<result.val>>
                /\ view' = "invoice"
                /\ invoices' = Append(invoices, result.val)
                /\ qrPolling' = TRUE
                /\ ReceiptUnmounted
    /\ creating' = <<>>
    /\ UNCHANGED <<completedDonation, showConfetti, resets, statusPolls, succeeded>>
    /\ UNCHANGED <<apiVars, clientVars, homeVars>>

\* The interval of the mounted InvoiceQR fires: getInvoiceStatus is called.
QrIntervalTick ==
    /\ view = "invoice"
    /\ invoice # <<>>
    /\ qrPolling
    /\ InFlight(statusPolls, 1..MaxShown) < MaxPagePolls
    /\ \E i \in 1..Len(invoices) :
         /\ Mounted(i)
         /\ statusPolls' = [statusPolls EXCEPT ![i] = @ + 1]
    /\ UNCHANGED <<view, invoice, completedDonation, showConfetti, creating, resets,
                   qrPolling, receipt, loading, receiptFetches, invoices, succeeded>>
    /\ UNCHANGED <<apiVars, clientVars, homeVars>>

\* handlePaymentSuccess of the page with the receipt view, in the closure of
\* the render that showed the i-th invoice.
handlePaymentSuccess(i) ==
    /\ completedDonation' = <<completedOf(invoices[i])>>
    /\ view' = "receipt"
    /\ showConfetti' = TRUE
    /\ DashboardRefetched
    /\ qrPolling' = FALSE
    /\ IF view = "receipt" /\ completedDonation # <<>>
       THEN \* the receipt stays mounted; its effect runs again if a prop changed
            /\ receiptFetches' =
                 IF completedDonation' = completedDonation THEN receiptFetches
                 ELSE receiptFetches \cup {completedOf(invoices[i])}
            /\ UNCHANGED <<receipt, loading>>
       ELSE /\ receipt' = <<>>
            /\ loading' = TRUE
            /\ receiptFetches' = {completedOf(invoices[i])}
    /\ UNCHANGED <<invoice, resets>>

\* handlePaymentSuccess of the page without the receipt view: the reset of
\* the page is left to a 3-second timer.
handlePaymentSuccessNoReceipt(i) ==
    /\ showConfetti' = TRUE
    /\ DashboardRefetched
    /\ resets' = [resets EXCEPT ![i] = @ + 1]
    /\ qrPolling' = IF Mounted(i) THEN FALSE ELSE qrPolling
    /\ UNCHANGED <<view, invoice, completedDonation, receipt, loading, receiptFetches>>

\* A status request of an InvoiceQR resolves and its callback goes on; the
\* component may be off the page by then.
QrPollResolves(withReceipt) ==
    /\ \E i \in 1..Len(invoices) :
         /\ statusPolls[i] > 0
         /\ statusPolls' = [statusPolls EXCEPT ![i] = @ - 1]
         /\ \E r \in FetchOutcomes :
              LET result == getInvoiceStatusHttp(r) IN
                IF ~result.threw /\ result.val.status = "PAID"
                THEN /\ succeeded' = succeeded \cup {i}
                     /\ IF withReceipt THEN handlePaymentSuccess(i)
                        ELSE handlePaymentSuccessNoReceipt(i)
                ELSE /\ qrPolling' =
                          IF ~result.threw /\ result.val.status = "EXPIRED" /\ Mounted(i)
                          THEN FALSE ELSE qrPolling
                     /\ UNCHANGED <<view, invoice, completedDonation, showConfetti,
                                    resets, receipt, loading, receiptFetches,
                                    succeeded, homeVars>>
    /\ UNCHANGED <<creating, invoices>>
    /\ UNCHANGED <<apiVars, clientVars>>

QrPollResolvesReceipt == QrPollResolves(TRUE)

QrPollResolvesNoReceipt == QrPollResolves(FALSE)

\* The timer set by handlePaymentSuccess fires: setInvoice(null); setView("form").
ResetFires ==
    /\ \E i \in 1..MaxShown :
         /\ resets[i] > 0
         /\ resets' = [resets EXCEPT ![i] = @ - 1]
    /\ invoice' = <<>>
    /\ view' = "form"
    /\ qrPolling' = FALSE
    /\ UNCHANGED <<completedDonation, showConfetti, creating, statusPolls, receipt,
                   loading, receiptFetches, invoices, succeeded>>
    /\ UNCHANGED <<apiVars, clientVars, homeVars>>

\* What handleBack and handleNewDonation both do.
BackToForm ==
    /\ invoice' = <<>>
    /\ completedDonation' = <<>>
    /\ view' = "form"
    /\ qrPolling' = FALSE
    /\ ReceiptUnmounted
    /\ UNCHANGED <<showConfetti, creating, resets, statusPolls, invoices, succeeded>>
    /\ UNCHANGED <<apiVars, clientVars, homeVars>>

\* handleBack, from the back button of InvoiceQR or of the receipt.
HandleBack ==
    /\ view \in {"invoice", "receipt"}
    /\ BackToForm

\* handleNewDonation, from the button of a loaded receipt.
HandleNewDonation ==
    /\ view = "receipt"
    /\ receipt # <<>>
    /\ ~loading
    /\ BackToForm

\* The timer of the confetti fires.
ConfettiOff ==
    /\ showConfetti
    /\ showConfetti' = FALSE
    /\ UNCHANGED <<view, invoice, completedDonation, creating, resets, qrPolling,
                   statusPolls, receipt, loading, receiptFetches, invoices, succeeded>>
    /\ UNCHANGED <<apiVars, clientVars, homeVars>>

\* fetchReceipt after await getDonationReceipt: the receipt of the backend,
\* or, in the catch, the fallback receipt; finally loading is off.
FetchReceiptResolves ==
    /\ \E props \in receiptFetches :
         /\ \E r \in ReceiptOutcomes(props.payment_hash) :
              LET result == getDonationReceipt(r) IN
                receipt' = <<IF result.threw THEN fallbackReceipt(props, now)
                             ELSE result.val>>
         /\ receiptFetches' = receiptFetches \ {props}
    /\ loading' = FALSE
    /\ UNCHANGED <<view, invoice, completedDonation, showConfetti, creating, resets,
                   qrPolling, statusPolls, invoices, succeeded>>
    /\ UNCHANGED <<apiVars, clientVars, homeVars>>

\* useState initial values of Home; the first fetchDashboardData is not yet called.
InitHome ==
    /\ recentDonations = <<>>
    /\ stats = [totalSats |-> 0, donorCount |-> 0]
    /\ dashboard = <<>>

Init == InitApi /\ InitClient /\ InitHome /\ InitPage

Next ==
    \/ Tick
    \/ CreateInvoice
    \/ \E c \in Callers : CallGetInvoiceStatus(c)
    \/ \E c \in Callers : GetInvoiceStatus(c)
    \/ GetDonationStats

Spec == Init /\ [][Next]_vars

NextClient ==
    \/ Tick
    \/ IntervalTick
    \/ PollResolve
    \/ ConfirmPayment

SpecClient == Init /\ [][NextClient]_vars

\* One caller at a time, with any arguments: through the form or directly.
NextInputs ==
    \/ Tick
    \/ OnSubmit
    \/ CreateInvoiceDirect
    \/ CallGetInvoiceStatus(1)
    \/ GetInvoiceStatus(1)

SpecInputs == Init /\ [][NextInputs]_vars

\* A run long enough to fill the recent donations feed: one donor after the
\* other creates an invoice and polls it, and the feed is read in between.
FeedTick == TickUpTo(MaxFeedTicks)

\* Every donor of the feed gives the same.
FeedInputs == { <<2, "Ann", "Shelter">> }

FeedCreateInvoice == CreateInvoiceFrom(FeedInputs, MaxPayments)

NextFeed ==
    \/ FeedTick
    \/ FeedCreateInvoice
    \/ CallGetInvoiceStatus(1)
    \/ GetInvoiceStatus(1)
    \/ GetRecentDonations

SpecFeed == Init /\ [][NextFeed]_vars

\* The dashboard of Home reads the mock API while one donor creates and polls.
NextHome ==
    \/ Tick
    \/ CreateInvoice
    \/ CallGetInvoiceStatus(1)
    \/ GetInvoiceStatus(1)
    \/ FetchDashboardData
    \/ DashboardRecentResolves
    \/ DashboardStatsResolves

SpecHome == Init /\ [][NextHome]_vars

\* The page with the receipt view, over the HTTP client.
NextPage ==
    \/ Tick
    \/ SubmitForm
    \/ CreateInvoiceResolves
    \/ QrIntervalTick
    \/ QrPollResolvesReceipt
    \/ HandleBack
    \/ HandleNewDonation
    \/ ConfettiOff
    \/ FetchReceiptResolves
    \/ DashboardRecentResolves
    \/ DashboardStatsResolves

SpecPage == Init /\ [][NextPage]_vars

\* The page without the receipt view, over the HTTP client.
NextPageNoReceipt ==
    \/ SubmitForm
    \/ CreateInvoiceResolves
    \/ QrIntervalTick
    \/ QrPollResolvesNoReceipt
    \/ ResetFires
    \/ HandleBack
    \/ ConfettiOff
    \/ DashboardRecentResolves
    \/ DashboardStatsResolves

SpecPageNoReceipt == Init /\ [][NextPageNoReceipt]_vars

\* ------------------------------------------------------------------ claims

\* The step is the continuation of caller c's status check.
Completes(c) == polls[c] # <<>> /\ polls'[c] = <<>>

\* The invoice's creation time is the clock value its payment hash embeds.
ExpiresAt(inv) == inv.payment_hash + inv.expires_in * 1000

RECURSIVE SumOver(_, _)
\* The sum of amount_sats over the Donations at the indices in S.
SumOver(donations, S) ==
    IF S = {} THEN 0
    ELSE LET i == CHOOSE j \in S : TRUE IN
           donations[i].amount_sats + SumOver(donations, S \ {i})

\* The paid_at of the first Donation made for payment hash h.
FirstPaidAt(h) ==
    LET i == CHOOSE j \in DonationsFor(h) : \A k \in DonationsFor(h) : k <= j IN
      mockDonations[i].paid_at

C2_ConcurrentChecksPromoteOnce ==
    [][\A c \in Callers :
         (Completes(c) /\ snap[c].paid /\ snap[c].created = created)
           => Cardinality(DonationsIn(ledgerHash', polls[c][1])) = snap[c].count + 1]_apiVars

\* C2 witness: a check called while the hash was paid is still in flight and
\* another caller's concurrent check has just returned PAID for that hash.
C2_Witness ==
    \E c \in Callers :
      /\ polls[c] # <<>>
      /\ snap[c].paid
      /\ snap[c].created = created
      /\ returned.op = "getInvoiceStatus"
      /\ returned.val.status = "PAID"
      /\ Cardinality(DonationsFor(polls[c][1])) = snap[c].count + 1

\* C3: a status check that returns PAID raises donorCount by exactly 1 and
\* totalSats by exactly the amount of the invoice checked, as getDonationStats
\* reports them right after.
C3_PaidAddsOneDonorAndAmount ==
    [][\A c \in Callers :
         (Completes(c) /\ returned'.val.status = "PAID")
           => /\ ~notPending(polls[c][1], pendingInvoice)
              /\ getDonationStats(mockDonations').donorCount
                   = getDonationStats(mockDonations).donorCount + 1
              /\ getDonationStats(mockDonations').totalSats
                   = getDonationStats(mockDonations).totalSats
                     + pendingInvoice[1].amount_sats]_apiVars

\* C3 witness: a check has just returned PAID for the second Donation.
C3_Witness ==
    /\ returned.op = "getInvoiceStatus"
    /\ returned.val.status = "PAID"
    /\ Len(mockDonations) = 2
    /\ mockDonations[1].paid_at = returned.val.paid_at

\* C4: once a Donation exists for a payment_id, every later status check for
\* it returns PAID with the same paid_at and leaves the stats as they were.
C4_PaidIsTerminal ==
    [][\A c \in Callers :
         (Completes(c) /\ DonationsFor(polls[c][1]) # {})
           => /\ returned'.val = [status |-> "PAID", paid_at |-> FirstPaidAt(polls[c][1])]
              /\ getDonationStats(mockDonations') = getDonationStats(mockDonations)]_apiVars

\* C5: a status check for a payment_id that was never created returns an
\* outcome that is none of PENDING, PAID and EXPIRED.
C5_UnknownIsNotFound ==
    [][\A c \in Callers :
         (Completes(c) /\ polls[c][1] \notin issued)
           => returned'.val.status \notin {"PENDING", "PAID", "EXPIRED"}]_apiVars

\* C6: in every reachable state getDonationStats returns the sum of
\* amount_sats over the Donations of the ledger and their number, which is
\* the number of promotions made.
C6_StatsMatchLedger ==
    /\ getDonationStats(mockDonations).totalSats
         = SumOver(mockDonations, DOMAIN mockDonations)
    /\ getDonationStats(mockDonations).donorCount = Cardinality(DOMAIN mockDonations)
    /\ getDonationStats(mockDonations).donorCount = Len(ledgerHash)

\* C6 witness: getDonationStats has returned the stats of a ledger of two.
C6_Witness ==
    /\ returned.op = "getDonationStats"
    /\ returned.val.donorCount = 2
    /\ returned.val.totalSats = SumOver(mockDonations, DOMAIN mockDonations)
    /\ Len(mockDonations) = 2

\* C7: a status check of the pending invoice, made before the invoice expires
\* and before the poll on which the oracle reports it paid, returns PENDING and leaves the
\* ledger, hence the stats, unchanged.
C7_PendingLeavesLedger ==
    [][\A c \in Callers :
         (/\ Completes(c)
          /\ ~notPending(polls[c][1], pendingInvoice)
          /\ pollCount + 1 < PaidAfterPolls
          /\ now < ExpiresAt(pendingInvoice[1]))
           => /\ returned'.val = [status |-> "PENDING"]
              /\ mockDonations' = mockDonations
              /\ ledgerHash' = ledgerHash]_apiVars

\* C7 witness: the pending, unexpired invoice has been polled once and the
\* check returned PENDING.
C7_Witness ==
    /\ pendingInvoice # <<>>
    /\ pollCount = 1
    /\ now < ExpiresAt(pendingInvoice[1])
    /\ returned = [op |-> "getInvoiceStatus", val |-> [status |-> "PENDING"]]

\* C8: a status check of an unpaid invoice made after its expiry time returns
\* EXPIRED and removes the invoice from the store.
C8_ExpiredAfterTtl ==
    [][\A c \in Callers :
         (/\ Completes(c)
          /\ ~notPending(polls[c][1], pendingInvoice)
          /\ now > ExpiresAt(pendingInvoice[1]))
           => /\ returned'.val.status = "EXPIRED"
              /\ pendingInvoice' = <<>>]_apiVars

\* C9: confirmPayment returns status PAID only when the backend answered,
\* with an OK response, that the payment is PAID.
C9_PaidOnlyWhenBackendSaysPaid ==
    (lastCall = "confirmPayment" /\ confirmed[1].status = "PAID")
      => /\ ~Unavailable(lastFetch)
         /\ lastFetch.data.status = "PAID"

\* C10: when a status check of the polling view fails because the backend
\* is unavailable, the view stops showing PENDING, and the failed check
\* changes nothing else: polling, the success callback and the stores are
\* as they were.
C10_FailureNotShownAsPending ==
    [][(inflight' = inflight - 1 /\ Unavailable(lastFetch'))
         => /\ status' # "PENDING"
            /\ UNCHANGED <<isPolling, intervalOn, successCalls, confirmed>>
            /\ UNCHANGED apiVars]_vars

\* C11: createInvoice accepts an amount only if it is an integer in
\* [1, 1000000]; for any other amount it creates no invoice, whether it is
\* reached through the form or directly.
C11_InvalidAmountCreatesNoInvoice ==
    /\ pendingInvoice # <<>> => pendingInvoice[1].amount_sats \in 1..1000000
    /\ returned.op = "createInvoice" => returned.val.amount_sats \in 1..1000000

\* C12: no two invoices created in the process lifetime share a payment_hash:
\* the createInvoice calls completed so far have returned that many hashes.
C12_PaymentHashesDistinct == Cardinality(issued) = created

\* C13: invoices with different payment hashes are independent: creating an
\* invoice with a new payment hash leaves an earlier, still pending invoice in
\* the store, with the polls it has had.
C13_OtherInvoiceKeepsPending ==
    [][(pendingInvoice # <<>> /\ issued' # issued)
         => /\ pendingInvoice' = pendingInvoice
            /\ pollCount' = pollCount]_apiVars

C15_ExpiresAnHourAfterCreation ==
    (returned.op = "createInvoice" /\ returned.val.amount_sats \in 1..1000000)
      => /\ returned.val.expires_in = 3600
         /\ ExpiresAt(returned.val) - returned.val.payment_hash = 3600 * 1000

\* Invoices of different amounts, donors and recipients, created at different
\* times: one is pending, the other was paid.
C15_Witness ==
    /\ returned.op = "createInvoice"
    /\ returned.val.amount_sats = 1000000
    /\ returned.val.recipient = ""
    /\ returned.val.payment_hash > 0
    /\ Len(mockDonations) = 1
    /\ mockDonations[1].amount_sats = 2
    /\ mockDonations[1].recipient = "Shelter"

\* C16: the ledger is append-only: in every step each Donation already in the
\* ledger stays in it, in its order and with all its fields; a step only adds.
C16_LedgerAppendOnly ==
    [][LET grown == Len(mockDonations') - Len(mockDonations)
       IN /\ grown >= 0
          /\ \A i \in 1..Len(mockDonations) :
               mockDonations'[i + grown] = mockDonations[i]]_apiVars

\* A Donation that stayed while a later one was added and the stats were read.
C16_Witness ==
    /\ Len(mockDonations) = 2
    /\ mockDonations[2].paid_at < mockDonations[1].paid_at
    /\ returned.op = "getDonationStats"

\* C17: the recent donations and the stats the dashboard shows always belong
\* to one ledger state: to the ledger as it was when it held as many Donations
\* as the stats count.
C17_DashboardShowsOneLedgerState ==
    /\ stats.donorCount <= Len(mockDonations)
    /\ LET first == Len(mockDonations) - stats.donorCount + 1
           ledger == SubSeq(mockDonations, first, Len(mockDonations))
       IN /\ stats.totalSats = SumOver(ledger, 1..Len(ledger))
          /\ Len(recentDonations) = (IF Len(ledger) < 5 THEN Len(ledger) ELSE 5)
          /\ \A i \in 1..Len(recentDonations) : recentDonations[i] = ledger[i]

C19_DonationIdsDistinct ==
    \A i, j \in 1..Len(mockDonations) :
      i # j => mockDonations[i].id # mockDonations[j].id

\* Two Donations alike in everything but the id: same invoice fields, same
\* payment hash, paid at the same instant.
C19_Witness ==
    /\ Len(mockDonations) = 2
    /\ ledgerHash[1] = ledgerHash[2]
    /\ [mockDonations[1] EXCEPT !.id = 0] = [mockDonations[2] EXCEPT !.id = 0]

\* C20: createInvoice turns an absent, empty or whitespace-only donor name
\* into "Anonymous": neither the invoice it returns nor a Donation in the
\* ledger carries an empty or blank donor_name.
C20_NoBlankDonorName ==
    /\ returned.op = "createInvoice" => returned.val.donor_name \notin {"", " "}
    /\ \A i \in 1..Len(mockDonations) : mockDonations[i].donor_name \notin {"", " "}

\* C22: in the stub, of the status checks completed for the pending invoice
\* since its createInvoice, the first returns PENDING and the second returns
\* PAID, whatever polls earlier invoices have had.
C22_SecondCheckIsPaid ==
    [][\A c \in Callers :
         (/\ Completes(c)
          /\ pendingInvoice # <<>>
          /\ polls[c][1] = pendingInvoice[1].payment_hash)
           => /\ checked = 0 => returned'.val.status = "PENDING"
              /\ checked = 1 => returned'.val.status = "PAID"
              /\ checked < 2]_apiVars

\* Two invoices created at different times, each polled and paid.
C22_Witness ==
    /\ Len(mockDonations) = 2
    /\ ledgerHash[1] # ledgerHash[2]
    /\ returned = StatusReturn([status |-> "PAID", paid_at |-> now])
    /\ \A c \in Callers : polls[c] = <<>>

\* C24: a status check for a payment hash that is not the pending invoice's
\* changes nothing: pollCount, pendingInvoice and the ledger are as they were.
C24_StrayCheckChangesNothing ==
    [][\A c \in Callers :
         (/\ Completes(c)
          /\ \/ pendingInvoice = <<>>
             \/ pendingInvoice # <<>> /\ polls[c][1] # pendingInvoice[1].payment_hash)
           => UNCHANGED <<pollCount, pendingInvoice, mockDonations>>]_apiVars

\* An invoice is pending and the call completed last, after its createInvoice,
\* was a status check that did not count for it: a check of another hash.
C24_Witness ==
    /\ pendingInvoice # <<>>
    /\ pollCount = 0
    /\ returned = StatusReturn([status |-> "PENDING"])

\* C23: for one displayed invoice the polling loop invokes onPaymentSuccess
\* at most once, also when several status requests are in flight and more than
\* one of them resolves with PAID.
C23_SuccessInvokedAtMostOnce == successCalls <= 1

\* C21: when fetching the receipt of a payment fails, no locally made up
\* receipt is displayed: a receipt on the page is the one the backend holds
\* for its payment hash.
C21_NoFabricatedReceipt ==
    (view = "receipt" /\ receipt # <<>>)
      => receipt[1] = backendReceipt(receipt[1].payment_hash)

\* The step is a run of handlePaymentSuccess for the i-th invoice: one of its
\* status requests resolved with PAID.
SuccessStep(i) ==
    /\ i \in succeeded'
    /\ statusPolls'[i] = statusPolls[i] - 1

C26_ResetDismissesOwnInvoiceOnly ==
    [][(view = "invoice" /\ invoice # <<>> /\ invoice' = <<>>)
         => \A i \in 1..MaxShown :
              resets'[i] < resets[i] => invoice = <<invoices[i]>>]_vars

====
